---- MODULE Spec2Model ----
(***************************************************************************)
(* Model of anchor/shower.py: the four shower creators (create_shower,     *)
(* create_direct, create_reflected, create_stratospheric), the run         *)
(* directories they create, the process working directory they change and  *)
(* the sequence of operations they issue on the zhaires task, the os       *)
(* module and the igrf12 model.                                            *)
(*                                                                         *)
(* Strings that the code inspects character by character (the primary      *)
(* particle, lower-cased by create_stratospheric) are sequences of         *)
(* one-character strings.  Paths are sequences of path components.         *)
(* Energies, angles and altitudes are bounded integers; a thinning level   *)
(* 1e-k is written as the integer -k (the code passes it on untouched).    *)
(***************************************************************************)
EXTENDS Integers, Sequences, FiniteSets, TLC

VARIABLES fs, cwd, installed, call, prior, trace, outcome

vars == <<fs, cwd, installed, call, prior, trace, outcome>>

(***************************************************************************)
(* Bounds of the explored inputs.                                          *)
(***************************************************************************)
MaxEnergy == 2

MaxGround == 1

Names == {"s1", "s2"}

Energies == 0..MaxEnergy

Grounds == 0..MaxGround

Zeniths == {0, 30}

Thinnings == {-6, -1}

Dates == {"2016-12-01", "not-a-date"}

Models == {"none", "AiresQ"}

Supplied == {"none", "kw_default", "kw_program", "pos_default"}

Proton == <<"p", "r", "o", "t", "o", "n">>

ParticleInputs ==
    { Proton,
      <<"P", "r", "o", "t", "o", "n">>,
      <<"I", "R", "O", "N">>,
      <<"e", "l", "e", "c", "t", "r", "o", "n">>,
      <<"m", "u", "o", "n">> }

(***************************************************************************)
(* Paths.                                                                  *)
(***************************************************************************)
join(a, b) == a \o b

PackageRoot == <<"anchor">>

run_directory == <<"run_root">>

StartDir == <<"start">>

None == <<>>

UserDefault == <<"user", "extra.inp">>

UserProgram == <<"user", "Aires">>

Directory(name) == join(run_directory, <<name>>)

common_default == join(PackageRoot, <<"defaults", "common_default.inp">>)

reflected_default == join(PackageRoot, <<"defaults", "reflected_default.inp">>)

direct_default == join(PackageRoot, <<"defaults", "direct_default.inp">>)

stratospheric_default == join(PackageRoot, <<"defaults", "stratospheric_default.inp">>)

ProgramName(model) == IF model = "AiresQ" THEN "AiresQ" ELSE "Aires"

reflected_program(model) ==
    join(PackageRoot, <<"aires", "aires_reflected_install", "bin", ProgramName(model)>>)

direct_program ==
    join(PackageRoot, <<"aires", "aires_direct_install", "bin", "Aires">>)

bindir == join(PackageRoot, <<"aires", "aires_stratospheric_install", "bin">>)

stratospheric_program(model) == join(bindir, <<ProgramName(model)>>)

raspass == join(bindir, <<"RASPASSprimary">>)

AllPrograms ==
    { reflected_program("none"), reflected_program("AiresQ"), direct_program,
      stratospheric_program("none"), stratospheric_program("AiresQ"), raspass }

\* The installations explored: everything built, or only the reflected Aires
\* and the stratospheric AiresQ.
Installations ==
    { AllPrograms, {reflected_program("none"), stratospheric_program("AiresQ")} }

(***************************************************************************)
(* str.lower()                                                             *)
(***************************************************************************)
UpperCase ==
    <<"A", "B", "C", "D", "E", "F", "G", "H", "I", "J", "K", "L", "M",
      "N", "O", "P", "Q", "R", "S", "T", "U", "V", "W", "X", "Y", "Z">>

LowerCase ==
    <<"a", "b", "c", "d", "e", "f", "g", "h", "i", "j", "k", "l", "m",
      "n", "o", "p", "q", "r", "s", "t", "u", "v", "w", "x", "y", "z">>

LowerChar(c) ==
    IF \E i \in DOMAIN UpperCase : UpperCase[i] = c
    THEN LowerCase[CHOOSE i \in DOMAIN UpperCase : UpperCase[i] = c]
    ELSE c

lower(s) == [i \in DOMAIN s |-> LowerChar(s[i])]

(***************************************************************************)
(* One operation issued by a creator: on os / os.path, on the zhaires task *)
(* (the sim methods), or on igrf12.                                       *)
(***************************************************************************)
Step(o, a) == [op |-> o, args |-> a]

\* igrf12.igrf raises for a date it cannot parse; the error propagates.
LookupOK(date) == date = "2016-12-01"

\* The field sample returned by igrf12.igrf for a query.
igrf(date, glat, glon, alt_km) == <<date, glat, glon, alt_km>>

\* B[column].values[0]
Column(B, column) == <<column, B>>

(***************************************************************************)
(* os.makedirs(directory, exist_ok=True): an existing directory is not an  *)
(* error; anything else at the path is.                                    *)
(***************************************************************************)
makedirs(fs0, name) ==
    IF fs0[name] = "file"
    THEN [ok |-> FALSE, fs |-> fs0]
    ELSE [ok |-> TRUE, fs |-> [fs0 EXCEPT ![name] = "dir"]]

\* os.chdir(directory) raises unless the path is a directory.
chdir_ok(fs0, name) == fs0[name] = "dir"

Result(fs1, cwd1, trace1, outcome1) ==
    [fs |-> fs1, cwd |-> cwd1, trace |-> trace1, outcome |-> outcome1]

\* Variant of field_query: the altitude is passed in metres.
field_query_metres(q) == igrf(q.date, q.lat, q.lon, 1000 * q.ground)

\* The query create_shower sends to igrf12: the site's position, altitude in km.
field_query(q) == igrf(q.date, q.lat, q.lon, q.ground)

\* Variant of stratospheric_zenith: the zenith is passed on unchanged.
stratospheric_zenith_uncomplemented(zenith) == zenith

\* The zenith create_stratospheric sets: the complement of the caller's.
stratospheric_zenith(zenith) == 180 - zenith

\* Variant of directory_step: anything already at the run path is an error,
\* whatever restart says.
directory_step_ignoring_restart(fs0, cwd0, name, restart) ==
    LET directory == Directory(name)
        t1 == <<Step("os.makedirs", <<directory, "exist_ok">>)>>
        t2 == t1 \o <<Step("os.chdir", <<directory>>)>>
    IN  IF fs0[name] # "absent"
        THEN Result(fs0, cwd0, t1, "ValueError: Simulation already exists")
        ELSE Result([fs0 EXCEPT ![name] = "dir"], directory, t2, "ok")

\* Variant of directory_step: the working directory is changed only when the
\* run directory was newly created.
directory_step_chdir_when_new(fs0, cwd0, name, restart) ==
    LET directory == Directory(name)
        made == makedirs(fs0, name)
        t1 == <<Step("os.makedirs", <<directory, "exist_ok">>)>>
        t2 == t1 \o <<Step("os.chdir", <<directory>>)>>
    IN  IF ~made.ok /\ ~restart
        THEN Result(made.fs, cwd0, t1, "ValueError: Simulation already exists")
        ELSE IF ~chdir_ok(made.fs, name)
             THEN Result(made.fs, cwd0, t2, "OSError: chdir")
             ELSE IF fs0[name] = "dir"
                  THEN Result(made.fs, cwd0, t2, "ok")
                  ELSE Result(made.fs, directory, t2, "ok")

(***************************************************************************)
(* The run-directory step shared by create_shower and                      *)
(* create_stratospheric: create the directory, and on an error of makedirs *)
(* either go on (restart) or raise ValueError("Simulation already          *)
(* exists"); then change the working directory.                            *)
(***************************************************************************)
directory_step(fs0, cwd0, name, restart) ==
    LET directory == Directory(name)
        made == makedirs(fs0, name)
        t1 == <<Step("os.makedirs", <<directory, "exist_ok">>)>>
        t2 == t1 \o <<Step("os.chdir", <<directory>>)>>
    IN  IF ~made.ok /\ ~restart
        THEN Result(made.fs, cwd0, t1, "ValueError: Simulation already exists")
        ELSE IF ~chdir_ok(made.fs, name)
             THEN Result(made.fs, cwd0, t2, "OSError: chdir")
             ELSE Result(made.fs, directory, t2, "ok")

(***************************************************************************)
(* create_shower, with its arguments bound: q carries the caller's         *)
(* arguments, default and program are the values bound to those two        *)
(* parameters (None when not supplied).                                    *)
(***************************************************************************)
create_shower(fs0, cwd0, q, default, program) ==
    LET directory == Directory(q.name)
        d == directory_step(fs0, cwd0, q.name, q.restart)
        B == field_query(q)
        t3 == d.trace \o
              << Step("zhaires.Task", <<program, common_default>>),
                 Step("sim.load_from_file", <<default>>),
                 Step("sim.task_name", <<q.name>>),
                 Step("sim.file_directory", <<directory, "All">>),
                 Step("sim.primary_particle", <<q.particle>>),
                 Step("sim.primary_energy", <<10 ^ q.energy>>),
                 Step("sim.primary_zenith", <<q.zenith>>),
                 Step("sim.primary_azimuth", <<q.azimuth>>),
                 Step("sim.add_site", <<"LatLonAltSite", q.lat, q.lon, 1000 * q.ground, "m">>),
                 Step("sim.site", <<"LatLonAltSite">>),
                 Step("igrf12.igrf", B) >>
        t4 == t3 \o
              << Step("sim.geomagnetic_field",
                      <<Column(B, "total"), Column(B, "incl"), Column(B, "decl")>>),
                 Step("sim.thinning_energy", <<q.thinning, "relative">>),
                 Step("sim.injection_altitude", <<q.injection>>) >>
    IN  IF d.outcome # "ok"
        THEN d
        ELSE IF ~LookupOK(q.date)
             THEN Result(d.fs, d.cwd, t3, "igrf12 error")
             ELSE Result(d.fs, d.cwd, t4, "task")

\* Binding of the wrappers' call create_shower(*args, program=..., default=...,
\* **kwargs): a default already bound positionally is a TypeError raised before
\* the body of create_shower runs.
call_create_shower(fs0, cwd0, t0, q, default, program) ==
    IF q.supplied = "pos_default"
    THEN Result(fs0, cwd0, t0, "TypeError: multiple values for default")
    ELSE LET r == create_shower(fs0, cwd0, q, default, program)
         IN  Result(r.fs, r.cwd, t0 \o r.trace, r.outcome)

create_reflected(fs0, cwd0, inst, q) ==
    LET program == reflected_program(q.model)
        t0 == <<Step("op.exists", <<program>>)>>
    IN  IF q.supplied = "kw_default"
        THEN Result(fs0, cwd0, <<>>, "ValueError: Cannot overide default")
        ELSE IF q.supplied = "kw_program"
        THEN Result(fs0, cwd0, <<>>, "ValueError: Cannot overide program")
        ELSE IF program \notin inst
        THEN Result(fs0, cwd0, t0, "ValueError: Unable to find program")
        ELSE call_create_shower(fs0, cwd0, t0, q, reflected_default, program)

\* Variant of create_direct: only `program` is checked; a `default` keyword
\* is dropped and the call goes on.
create_direct_default_unchecked(fs0, cwd0, inst, q) ==
    LET program == direct_program
        t0 == <<Step("op.exists", <<program>>)>>
    IN  IF q.supplied = "kw_program"
        THEN Result(fs0, cwd0, <<>>, "ValueError: Cannot overide program")
        ELSE IF program \notin inst
        THEN Result(fs0, cwd0, t0, "ValueError: Unable to find program")
        ELSE call_create_shower(fs0, cwd0, t0, q, direct_default, program)

create_direct(fs0, cwd0, inst, q) ==
    LET program == direct_program
        t0 == <<Step("op.exists", <<program>>)>>
    IN  IF q.supplied = "kw_default"
        THEN Result(fs0, cwd0, <<>>, "ValueError: Cannot overide default")
        ELSE IF q.supplied = "kw_program"
        THEN Result(fs0, cwd0, <<>>, "ValueError: Cannot overide program")
        ELSE IF program \notin inst
        THEN Result(fs0, cwd0, t0, "ValueError: Unable to find program")
        ELSE call_create_shower(fs0, cwd0, t0, q, direct_default, program)

(***************************************************************************)
(* create_stratospheric.  The loop that registers the special particles    *)
(* uses the name `particle` for its loop variable, so after the loop       *)
(* `particle` is the last element of the list, whatever the caller passed. *)
(***************************************************************************)
SpecialParticles ==
    << <<"P", "r", "o", "t", "o", "n">>,
       <<"I", "r", "o", "n">>,
       <<"E", "l", "e", "c", "t", "r", "o", "n">> >>

AddSpecialParticles ==
    [i \in DOMAIN SpecialParticles |->
        Step("sim.__call__",
             <<"AddSpecialParticle", <<"RASPASS", SpecialParticles[i]>>, raspass,
               SpecialParticles[i]>>)]

\* The value of the local `particle` after the for loop over SpecialParticles.
ParticleAfterLoop(particle) ==
    IF Len(SpecialParticles) = 0 THEN particle
    ELSE SpecialParticles[Len(SpecialParticles)]

\* The if/elif chain choosing the RASPASS primary; "" when it raises.
SpecialFor(particle) ==
    IF lower(particle) = <<"p", "r", "o", "t", "o", "n">> THEN "RASPASSProton"
    ELSE IF lower(particle) = <<"i", "r", "o", "n">> THEN "RASPASSIron"
    ELSE IF lower(particle) = <<"e", "l", "e", "c", "t", "r", "o", "n">> THEN "RASPASSElectron"
    ELSE ""

\* f"{height*1e3:.2f}" for a whole number of kilometres.
FormatHeight(height) == [whole |-> height * 1000, hundredths |-> 0]

\* Variant of stratospheric_settings: the injection altitude is set as in
\* create_shower.
stratospheric_settings_with_injection(q, special) ==
    << Step("sim.primary_particle", <<special>>),
       Step("sim.primary_energy", <<10 ^ q.energy>>),
       Step("sim.primary_zenith", <<stratospheric_zenith(q.zenith)>>),
       Step("sim.primary_azimuth", <<q.azimuth>>),
       Step("sim.add_site", <<"LatLonAltSite", q.lat, q.lon, 1000 * q.ground, "m">>),
       Step("sim.site", <<"LatLonAltSite">>),
       Step("sim.thinning_energy", <<q.thinning, "relative">>),
       Step("sim.injection_altitude", <<q.injection>>),
       Step("sim.read_cmd", <<"SetGlobal", "RASPASSHeight", FormatHeight(q.height)>>) >>

\* The settings create_stratospheric applies once the primary is chosen.
stratospheric_settings(q, special) ==
    << Step("sim.primary_particle", <<special>>),
       Step("sim.primary_energy", <<10 ^ q.energy>>),
       Step("sim.primary_zenith", <<stratospheric_zenith(q.zenith)>>),
       Step("sim.primary_azimuth", <<q.azimuth>>),
       Step("sim.add_site", <<"LatLonAltSite", q.lat, q.lon, 1000 * q.ground, "m">>),
       Step("sim.site", <<"LatLonAltSite">>),
       Step("sim.thinning_energy", <<q.thinning, "relative">>),
       Step("sim.read_cmd", <<"SetGlobal", "RASPASSHeight", FormatHeight(q.height)>>) >>

create_stratospheric(fs0, cwd0, inst, q) ==
    LET default == stratospheric_default
        program == stratospheric_program(q.model)
        directory == Directory(q.name)
        d == directory_step(fs0, cwd0, q.name, q.restart)
        special == SpecialFor(ParticleAfterLoop(q.particle))
        t3 == d.trace \o
              << Step("zhaires.Task", <<program, default>>),
                 Step("zhaires.Task", <<program, common_default>>),
                 Step("sim.load_from_file", <<default>>),
                 Step("sim.task_name", <<q.name>>),
                 Step("sim.file_directory", <<directory, "All">>) >>
              \o AddSpecialParticles
        t4 == t3 \o stratospheric_settings(q, special)
    IN  IF q.supplied = "pos_default"
        THEN Result(fs0, cwd0, <<>>, "TypeError: too many positional arguments")
        ELSE IF d.outcome # "ok"
        THEN d
        ELSE IF special = ""
        THEN Result(d.fs, d.cwd, t3, "ValueError: unsupported primary")
        ELSE Result(d.fs, d.cwd, t4, "task")

(***************************************************************************)
(* The calls explored.  A request carries the caller's arguments:          *)
(* `supplied` says how default/program were passed (not at all, default    *)
(* or program by keyword, or default as the 13th positional argument) and  *)
(* `model` is the optional model keyword.  Arguments a creator does not    *)
(* declare (date and injection for create_stratospheric, height for the    *)
(* others) are extra keywords to it.                                       *)
(***************************************************************************)
BaseRequest(c) ==
    [ creator |-> c, name |-> "s1", particle |-> Proton, energy |-> 1,
      zenith |-> 30, azimuth |-> 90, lat |-> -80, lon |-> 120,
      date |-> "2016-12-01", ground |-> 1, height |-> 38, thinning |-> -6,
      injection |-> 100, restart |-> FALSE, supplied |-> "none",
      model |-> "none" ]

ControlRequests(c) ==
    { [BaseRequest(c) EXCEPT !.name = n, !.restart = r, !.supplied = s,
                             !.model = m, !.date = d] :
        n \in Names, r \in BOOLEAN, s \in Supplied, m \in Models, d \in Dates }

ValueRequests(c) ==
    { [BaseRequest(c) EXCEPT !.restart = TRUE, !.energy = e, !.ground = g,
                             !.zenith = z, !.thinning = t] :
        e \in Energies, g \in Grounds, z \in Zeniths, t \in Thinnings }

ParticleRequests(c) ==
    { [BaseRequest(c) EXCEPT !.restart = TRUE, !.particle = p] :
        p \in ParticleInputs }

Requests(c) == ControlRequests(c) \cup ValueRequests(c) \cup ParticleRequests(c)

\* The default and program a direct caller of create_shower binds.
DefaultOf(q) == IF q.supplied \in {"kw_default", "pos_default"} THEN UserDefault ELSE None

ProgramOf(q) == IF q.supplied = "kw_program" THEN UserProgram ELSE None

(***************************************************************************)
(* State: what is at <run_root>/<name> for every name ("absent", "dir" or  *)
(* "file"), the process working directory, the installed executables, and  *)
(* for the most recent call its request, what was at its run path before   *)
(* it, the operations it issued and how it ended ("task" or the error).    *)
(***************************************************************************)
Init ==
    /\ fs \in [Names -> {"absent", "file"}]
    /\ cwd = StartDir
    /\ installed \in Installations
    /\ call = BaseRequest("none")
    /\ prior = "absent"
    /\ trace = <<>>
    /\ outcome = "none"

Finish(q, r) ==
    /\ fs' = r.fs
    /\ cwd' = r.cwd
    /\ call' = q
    /\ prior' = fs[q.name]
    /\ trace' = r.trace
    /\ outcome' = r.outcome
    /\ UNCHANGED installed

CreateShower ==
    \E q \in Requests("create_shower") :
        Finish(q, create_shower(fs, cwd, q, DefaultOf(q), ProgramOf(q)))

CreateReflected ==
    \E q \in Requests("create_reflected") :
        Finish(q, create_reflected(fs, cwd, installed, q))

CreateDirect ==
    \E q \in Requests("create_direct") :
        Finish(q, create_direct(fs, cwd, installed, q))

CreateStratospheric ==
    \E q \in Requests("create_stratospheric") :
        Finish(q, create_stratospheric(fs, cwd, installed, q))

Next ==
    \/ CreateShower
    \/ CreateReflected
    \/ CreateDirect
    \/ CreateStratospheric

Spec == Init /\ [][Next]_vars

TypeOK ==
    /\ fs \in [Names -> {"absent", "dir", "file"}]
    /\ cwd \in {StartDir} \cup {Directory(n) : n \in Names}
    /\ installed \in Installations
    /\ prior \in {"absent", "dir", "file"}

(***************************************************************************)
(* Reading the operations of the most recent call.                         *)
(***************************************************************************)
Ops(t) == [i \in DOMAIN t |-> t[i].op]

HasOp(t, o) == \E i \in DOMAIN t : t[i].op = o

\* Arguments of the last operation o in t.
ArgsOf(t, o) ==
    t[CHOOSE i \in DOMAIN t :
        /\ t[i].op = o
        /\ \A j \in DOMAIN t : t[j].op = o => j <= i].args

Count(t, o) == Cardinality({i \in DOMAIN t : t[i].op = o})

IsTaskOp(o) ==
    o \in { "zhaires.Task", "sim.load_from_file", "sim.task_name",
            "sim.file_directory", "sim.primary_particle", "sim.primary_energy",
            "sim.primary_zenith", "sim.primary_azimuth", "sim.add_site",
            "sim.site", "sim.geomagnetic_field", "sim.thinning_energy",
            "sim.injection_altitude", "sim.__call__", "sim.read_cmd" }

NoTaskOp(t) == \A i \in DOMAIN t : ~IsTaskOp(t[i].op)

Creators ==
    {"create_shower", "create_direct", "create_reflected", "create_stratospheric"}

Called == call.creator \in Creators

Failed == Called /\ outcome # "task"

\* The executable a variant creator resolves for a request.
ResolvedProgram(q) ==
    CASE q.creator = "create_direct" -> direct_program
      [] q.creator = "create_reflected" -> reflected_program(q.model)
      [] q.creator = "create_stratospheric" -> stratospheric_program(q.model)

(***************************************************************************)
(* C1.  A call whose run directory already exists and whose restart is     *)
(* false fails with the "simulation already exists" error, before any task *)
(* operation and before the working directory is changed.                  *)
(***************************************************************************)
C1_ExistingRunRejected ==
    (Called /\ prior = "dir" /\ ~call.restart)
        => /\ outcome = "ValueError: Simulation already exists"
           /\ NoTaskOp(trace)
           /\ ~HasOp(trace, "os.chdir")

(***************************************************************************)
(* C2.  create_stratospheric sets the primary that corresponds to the      *)
(* caller's particle compared case-insensitively (proton, iron, electron)  *)
(* and fails with the validation error, setting no primary, for any other  *)
(* particle.                                                               *)
(***************************************************************************)
C2_PrimaryFollowsParticle ==
    (/\ call.creator = "create_stratospheric"
     /\ outcome \in {"task", "ValueError: unsupported primary"})
        => LET p == lower(call.particle)
               expected ==
                   CASE p = <<"p", "r", "o", "t", "o", "n">> -> "RASPASSProton"
                     [] p = <<"i", "r", "o", "n">> -> "RASPASSIron"
                     [] p = <<"e", "l", "e", "c", "t", "r", "o", "n">> -> "RASPASSElectron"
                     [] OTHER -> ""
           IN  IF expected = ""
               THEN /\ outcome = "ValueError: unsupported primary"
                    /\ ~HasOp(trace, "sim.primary_particle")
               ELSE /\ outcome = "task"
                    /\ ArgsOf(trace, "sim.primary_particle") = <<expected>>

(***************************************************************************)
(* C4.  A variant creator whose resolved executable is not on disk fails,  *)
(* and constructs no task.                                                 *)
(***************************************************************************)
C4_MissingExecutableRejected ==
    (/\ call.creator \in {"create_direct", "create_reflected", "create_stratospheric"}
     /\ ResolvedProgram(call) \notin installed)
        => /\ outcome # "task"
           /\ ~HasOp(trace, "zhaires.Task")

(***************************************************************************)
(* C5.  create_shower issues load_from_file on the task exactly when a     *)
(* default file was supplied; without one no load is issued and the call   *)
(* goes on.                                                                *)
(***************************************************************************)
C5_LoadOnlyIfProvided ==
    (call.creator = "create_shower" /\ HasOp(trace, "zhaires.Task"))
        => (HasOp(trace, "sim.load_from_file") <=> DefaultOf(call) # None)

(***************************************************************************)
(* C3.  create_direct and create_reflected reject every call that supplies *)
(* default or program, whatever else holds; the rejected call creates no   *)
(* run directory, leaves the working directory alone and constructs no     *)
(* task.                                                                   *)
(***************************************************************************)
C3_OverrideRejected ==
    [][ (/\ call'.creator \in {"create_direct", "create_reflected"}
         /\ call'.supplied # "none")
            => /\ outcome' # "task"
               /\ NoTaskOp(trace')
               /\ ~HasOp(trace', "os.makedirs")
               /\ ~HasOp(trace', "os.chdir")
               /\ fs' = fs
               /\ cwd' = cwd ]_vars

\* A reflected call that supplies program, for a run that does not exist and
\* an executable that is missing, made while the working directory is the
\* run directory of another call.
C3_Witness ==
    /\ call.creator = "create_reflected"
    /\ call.supplied = "kw_program"
    /\ call.model = "AiresQ"
    /\ reflected_program("AiresQ") \notin installed
    /\ call.name = "s1"
    /\ fs["s1"] = "absent"
    /\ cwd = Directory("s2")
    /\ outcome = "ValueError: Cannot overide program"

(***************************************************************************)
(* C6.  The task a creation call returns holds the reference mapping of    *)
(* the request: primary energy 10^energy, site altitude 1000 * ground in   *)
(* metres, thinning as given and relative, output directory                *)
(* <run_root>/<name>, zenith as given, or 180 - zenith for                 *)
(* create_stratospheric.                                                   *)
(***************************************************************************)
RECURSIVE PowerOfTen(_)
PowerOfTen(n) == IF n = 0 THEN 1 ELSE 10 * PowerOfTen(n - 1)

C6_TaskValues ==
    (Called /\ outcome = "task")
        => LET site == ArgsOf(trace, "sim.add_site")
           IN  /\ ArgsOf(trace, "sim.primary_energy") = <<PowerOfTen(call.energy)>>
               /\ site[4] = call.ground * 1000
               /\ site[5] = "m"
               /\ ArgsOf(trace, "sim.thinning_energy") = <<call.thinning, "relative">>
               /\ ArgsOf(trace, "sim.file_directory")[1] = <<"run_root", call.name>>
               /\ ArgsOf(trace, "sim.primary_zenith") =
                      << IF call.creator = "create_stratospheric"
                         THEN 180 - call.zenith
                         ELSE call.zenith >>

C6_Witness ==
    /\ call.creator = "create_stratospheric"
    /\ outcome = "task"
    /\ call.zenith = 30
    /\ call.energy = 2
    /\ call.ground = 1
    /\ ArgsOf(trace, "sim.primary_zenith") = <<150>>
    /\ ArgsOf(trace, "sim.primary_energy") = <<100>>
    /\ ArgsOf(trace, "sim.add_site")[4] = 1000

\* The operations and outcome of a request, from a given state.
Perform(fs0, cwd0, inst, q) ==
    CASE q.creator = "create_shower" ->
            create_shower(fs0, cwd0, q, DefaultOf(q), ProgramOf(q))
      [] q.creator = "create_reflected" -> create_reflected(fs0, cwd0, inst, q)
      [] q.creator = "create_direct" -> create_direct(fs0, cwd0, inst, q)
      [] q.creator = "create_stratospheric" -> create_stratospheric(fs0, cwd0, inst, q)

(***************************************************************************)
(* C7.  Whether or not the run directory already exists, a call with       *)
(* restart = TRUE succeeds and issues exactly the operations the same call *)
(* issues into a fresh directory (one that returns a task there: the       *)
(* executable is present and nothing else rejects the request).  The       *)
(* state after such a call is again one where its run directory exists,    *)
(* so the property covers every repetition of the call.                    *)
(***************************************************************************)
C7_RestartIntoExisting ==
    LET fresh == Perform([n \in Names |-> "absent"], StartDir, installed, call)
    IN  (/\ Called
         /\ call.restart
         /\ prior \in {"absent", "dir"}
         /\ fresh.outcome = "task")
            => /\ outcome = "task"
               /\ trace = fresh.trace
               /\ cwd = fresh.cwd
               /\ fs[call.name] = "dir"

\* A create_direct call with restart = TRUE into a run directory that
\* already existed, returning a task.
C7_Witness ==
    /\ call.creator = "create_direct"
    /\ call.restart
    /\ prior = "dir"
    /\ outcome = "task"

(***************************************************************************)
(* C8.  A create_shower call that returns (directly or through             *)
(* create_direct / create_reflected) has issued each step once, in the     *)
(* order of ShowerOrder, the task built from the common defaults and the   *)
(* geomagnetic query made for the latitude, longitude and ground of the    *)
(* added site; and no task operation is issued unless the run-directory    *)
(* step succeeded first.                                                   *)
(***************************************************************************)
ShowerOrder ==
    << "os.makedirs", "os.chdir", "zhaires.Task", "sim.load_from_file",
       "sim.task_name", "sim.file_directory", "sim.primary_particle",
       "sim.primary_energy", "sim.primary_zenith", "sim.primary_azimuth",
       "sim.add_site", "sim.site", "igrf12.igrf", "sim.geomagnetic_field",
       "sim.thinning_energy", "sim.injection_altitude" >>

NotProbe(o) == o # "op.exists"

ShowerBased == call.creator \in {"create_shower", "create_direct", "create_reflected"}

C8_ShowerStepOrder ==
    /\ (ShowerBased /\ outcome = "task")
        => LET site == ArgsOf(trace, "sim.add_site")
               query == ArgsOf(trace, "igrf12.igrf")
           IN  /\ SelectSeq(Ops(trace), NotProbe) = ShowerOrder
               /\ ArgsOf(trace, "zhaires.Task")[2] = common_default
               /\ query[2] = site[2] /\ query[2] = call.lat
               /\ query[3] = site[3] /\ query[3] = call.lon
               /\ 1000 * query[4] = site[4] /\ query[4] = call.ground
               /\ ArgsOf(trace, "sim.geomagnetic_field") =
                      << <<"total", query>>, <<"incl", query>>, <<"decl", query>> >>
    /\ (ShowerBased /\ ~NoTaskOp(trace))
        => LET ops == SelectSeq(Ops(trace), NotProbe)
           IN  /\ ops[1] = "os.makedirs"
               /\ ops[2] = "os.chdir"
               /\ IsTaskOp(ops[3])
               /\ fs[call.name] = "dir"
               /\ cwd = Directory(call.name)

C8_Witness ==
    /\ call.creator = "create_reflected"
    /\ outcome = "task"
    /\ Len(trace) = 17
    /\ trace[14].op = "igrf12.igrf"
    /\ trace[14].args = <<"2016-12-01", -80, 120, 1>>

PassedDirectoryStep(t, o) == HasOp(t, "os.chdir") /\ o # "OSError: chdir"

RejectedEarly(o) ==
    o \in { "ValueError: Cannot overide default",
            "ValueError: Cannot overide program",
            "ValueError: Unable to find program" }

C10_WorkingDirectory ==
    [][ /\ PassedDirectoryStep(trace', outcome')
            => /\ cwd' = Directory(call'.name)
               /\ fs'[call'.name] = "dir"
        /\ ~PassedDirectoryStep(trace', outcome') => cwd' = cwd
        /\ \A n \in Names : fs[n] = "dir" => fs'[n] = "dir"
        /\ \A n \in Names \ {call'.name} : fs'[n] = fs[n]
        /\ RejectedEarly(outcome')
            => /\ ~HasOp(trace', "os.makedirs")
               /\ fs' = fs
               /\ cwd' = cwd ]_vars

\* A call that created its run directory and then failed in the geomagnetic
\* lookup: the directory is there and is the working directory.
C10_Witness ==
    /\ outcome = "igrf12 error"
    /\ prior = "absent"
    /\ fs[call.name] = "dir"
    /\ cwd = Directory(call.name)

====
